---- MODULE Spec2Model ----
(***************************************************************************)
(* Jitter-free synchronisation of the handyscope binding                    *)
(* (tiepie/jitter_free.py) together with the generator and oscilloscope     *)
(* accessors it drives.                                                     *)
(*                                                                          *)
(* Real numbers are exact rationals <<n, d>> with d > 0 and gcd(n, d) = 1;  *)
(* the non-finite floats are <<0, 0>> (nan), <<1, 0>> (inf) and <<-1, 0>>   *)
(* (-inf).  Sequences are 1-based in TLA+, the code's indices are 0-based:  *)
(* At(w, i) is w[i] of the code.                                            *)
(***************************************************************************)
EXTENDS Integers, Sequences, FiniteSets, TLC

(***************************************************************************)
(* Bounds of the model                                                      *)
(***************************************************************************)
\* largest n_avg passed to measurement_jitter_free
MaxAvg == 2
\* longest waveform and largest sample magnitude handed to _intersample_peak alone
MaxPeakLen == 4
MaxSample == 2

(***************************************************************************)
(* Program constants                                                        *)
(***************************************************************************)
\* range(0, int(1e4)) and the two divisions by 1e4
CalTrials == 10000
\* round(offset, 2): the offset is kept in hundredths
RoundScale == 100

(***************************************************************************)
(* Exact rational arithmetic                                                *)
(***************************************************************************)
Abs(x) == IF x < 0 THEN -x ELSE x

RECURSIVE Gcd(_, _)
Gcd(a, b) == IF b = 0 THEN a ELSE Gcd(b, a % b)

NaN == <<0, 0>>
Sign(x) == IF x > 0 THEN 1 ELSE IF x < 0 THEN -1 ELSE 0

\* the float n / d: a normalised rational, or inf / -inf / nan when d = 0
Rat(n, d) ==
    IF d = 0 THEN <<Sign(n), 0>>
    ELSE LET g == Gcd(Abs(n), Abs(d))
             s == IF d < 0 THEN -1 ELSE 1
         IN  <<(s * n) \div g, (s * d) \div g>>

RInt(i) == <<i, 1>>
IsFinite(q) == q[2] # 0

RAdd(p, q) ==
    IF IsFinite(p) /\ IsFinite(q)
    THEN LET g == Gcd(p[2], q[2])
         IN  Rat(p[1] * (q[2] \div g) + q[1] * (p[2] \div g), p[2] * (q[2] \div g))
    ELSE IF p = NaN \/ q = NaN THEN NaN
    ELSE IF IsFinite(p) THEN q
    ELSE IF IsFinite(q) THEN p
    ELSE IF p = q THEN p ELSE NaN

RNeg(p) == <<-p[1], p[2]>>
RSub(p, q) == RAdd(p, RNeg(q))

RMul(p, q) ==
    IF IsFinite(p) /\ IsFinite(q)
    THEN LET g1 == Gcd(Abs(p[1]), q[2])
             g2 == Gcd(Abs(q[1]), p[2])
             h1 == IF g1 = 0 THEN 1 ELSE g1
             h2 == IF g2 = 0 THEN 1 ELSE g2
         IN  Rat((p[1] \div h1) * (q[1] \div h2), (p[2] \div h2) * (q[2] \div h1))
    ELSE IF p = NaN \/ q = NaN \/ p[1] = 0 \/ q[1] = 0 THEN NaN
    ELSE <<Sign(p[1]) * Sign(q[1]), 0>>

\* p / k for a positive integer k
RDivInt(p, k) ==
    IF IsFinite(p)
    THEN LET g == Gcd(Abs(p[1]), k)
             h == IF g = 0 THEN 1 ELSE g
         IN  Rat(p[1] \div h, p[2] * (k \div h))
    ELSE p

RLe(p, q) == p[1] * q[2] <= q[1] * p[2]
RLt(p, q) == p[1] * q[2] < q[1] * p[2]

\* floor of a finite rational
RFloor(p) == p[1] \div p[2]

\* round(x, 2): nearest multiple of 1/RoundScale, ties to the even multiple
Round2(p) ==
    IF ~IsFinite(p) THEN p
    ELSE LET s  == RMul(p, RInt(RoundScale))
             f  == RFloor(s)
             r2 == RSub(RMul(s, RInt(2)), RInt(2 * f))   \* twice the fraction
             k  == IF RLt(r2, RInt(1)) THEN f
                   ELSE IF RLt(RInt(1), r2) THEN f + 1
                   ELSE IF f % 2 = 0 THEN f ELSE f + 1
         IN  Rat(k, RoundScale)

(***************************************************************************)
(* Waveforms and the peak estimator                                         *)
(***************************************************************************)
At(w, i) == w[i + 1]

\* the magnitudes are not taken
absolute_Signed(w) == w

\* np.absolute(signal)
absolute(w) == [k \in 1..Len(w) |-> Abs(w[k])]

\* np.argmax: 0-based index of the first maximum
argmax(w) ==
    CHOOSE i \in 0..(Len(w) - 1) :
        /\ \A j \in 0..(Len(w) - 1) : At(w, j) <= At(w, i)
        /\ \A j \in 0..(i - 1) : At(w, j) < At(w, i)

\* signal[k] of a numpy array: a negative index counts from the end, an index
\* outside [-len, len) is an IndexError
InRange(w, k) == -Len(w) <= k /\ k < Len(w)
Item_Clamped(w, k) == IF k < 0 THEN At(w, 0) ELSE At(w, k)
Item(w, k) == IF k < 0 THEN At(w, Len(w) + k) ELSE At(w, k)

\* the capture of a disabled channel (Python's None)
None == <<>>

\* the correction is taken without its factor 0.5
intersample_peak_WholeStep(signal) ==
    IF signal = None THEN [err |-> "TypeError", v |-> NaN]
    ELSE LET y       == absolute(signal)
             pos_max == argmax(y)
         IN  IF ~InRange(y, pos_max - 1) \/ ~InRange(y, pos_max + 1)
             THEN [err |-> "IndexError", v |-> NaN]
             ELSE [err |-> "none",
                   v   |-> RAdd(RInt(pos_max),
                                Rat(Item(y, pos_max - 1) - Item(y, pos_max + 1),
                                    Item(y, pos_max - 1) - 2 * Item(y, pos_max)
                                        + Item(y, pos_max + 1)))]

\* a zero denominator is answered with the index of the maximum
intersample_peak_FlatGuard(signal) ==
    IF signal = None THEN [err |-> "TypeError", v |-> NaN]
    ELSE LET y       == absolute(signal)
             pos_max == argmax(y)
         IN  IF ~InRange(y, pos_max - 1) \/ ~InRange(y, pos_max + 1)
             THEN [err |-> "IndexError", v |-> NaN]
             ELSE LET a == Item(y, pos_max - 1)
                      b == Item(y, pos_max)
                      c == Item(y, pos_max + 1)
                  IN  [err |-> "none",
                       v   |-> IF a - 2 * b + c = 0 THEN RInt(pos_max)
                               ELSE RAdd(RInt(pos_max),
                                         RMul(Rat(1, 2), Rat(a - c, a - 2 * b + c)))]

\* _intersample_peak(signal): [err, v]; np.absolute(None) is a TypeError
intersample_peak(signal) ==
    IF signal = None THEN [err |-> "TypeError", v |-> NaN]
    ELSE LET y       == absolute(signal)
             pos_max == argmax(y)
         IN  IF ~InRange(y, pos_max - 1) \/ ~InRange(y, pos_max + 1)
             THEN [err |-> "IndexError", v |-> NaN]
             ELSE LET a == Item(y, pos_max - 1)
                      b == Item(y, pos_max)
                      c == Item(y, pos_max + 1)
                  IN  [err |-> "none",
                       v   |-> RAdd(RInt(pos_max),
                                    RMul(Rat(1, 2), Rat(a - c, a - 2 * b + c)))]

\* the sample grid taken as 1..len: the sample left of x - 1
interp1_GridFromOne(x, fp) ==
    IF ~IsFinite(x) \/ RLe(x, RInt(1)) THEN RInt(fp[1])
    ELSE IF RLe(RInt(Len(fp)), x) THEN RInt(fp[Len(fp)])
    ELSE RInt(fp[RFloor(x)])

\* np.interp(x, arange(len(fp)), fp) at one position x
interp1(x, fp) ==
    LET n == Len(fp)
    IN  IF x = NaN THEN NaN
        ELSE IF ~IsFinite(x) THEN (IF x[1] < 0 THEN RInt(fp[1]) ELSE RInt(fp[n]))
        ELSE IF RLe(x, RInt(0)) THEN RInt(fp[1])
        ELSE IF RLe(RInt(n - 1), x) THEN RInt(fp[n])
        ELSE LET j == RFloor(x)
             IN  RAdd(RInt(At(fp, j)),
                      RMul(RSub(x, RInt(j)), RInt(At(fp, j + 1) - At(fp, j))))

\* np.interp(np.arange(len(fp)) + diff, np.arange(len(fp)), fp)
interp_shift(diff, fp) ==
    [k \in 1..Len(fp) |-> interp1(RAdd(RInt(k - 1), diff), fp)]

(***************************************************************************)
(* Devices, store file and program state                                    *)
(***************************************************************************)
VARIABLES
    gen,           \* generator settings held by the device
    genAttr,       \* Generator.arb_data of the Python object: "method" or "shadowed"
    genRunning,    \* generator started and not stopped
    osz,           \* oscilloscope settings held by the device
    oszState,      \* "idle", "armed" (started) or "ready" (data ready)
    phase,         \* parity of the device's acquisition count
    plan,          \* what the two channels capture on even and on odd acquisitions
    file,          \* config.json: [exists, table]
    pc,            \* position of the program
    loc,           \* the locals of the running routines (see NoLoc)
    outcome,       \* how the last top-level call ended
    pre,           \* history: devices, file and counters when the calibrator was entered
    tr             \* history: counters of the running top-level call

devVars == <<gen, genAttr, genRunning, osz, oszState, phase, plan>>
vars == <<gen, genAttr, genRunning, osz, oszState, phase, plan, file, pc,
          loc, outcome, pre, tr>>

\* config.json when there is no such file
Absent == [exists |-> FALSE, text |-> <<>>]

\* the keys str(osz.serial_no) and str(osz.sample_freq); rates are kept in MHz
StrSerial(n) == IF n = 12345 THEN "12345" ELSE "777"
StrRate(f)   == IF f = 100 THEN "100000000.0" ELSE "50000000.0"

\* a table: serial key -> (rate key -> offset)
EmptyTable == <<>>
HasEntry(t, s, r) == s \in DOMAIN t /\ r \in DOMAIN t[s]

\* the serial's dict is replaced by {r: v} whether or not the serial is known
SetEntry_FreshDict(t, s, r, v) ==
    [k \in (DOMAIN t) \cup {s} |-> IF k = s THEN [j \in {r} |-> v] ELSE t[k]]

\* lines 169-172: current[s][r] = v; except KeyError: current[s] = {r: v}
SetEntry(t, s, r, v) ==
    IF s \in DOMAIN t
    THEN [t EXCEPT ![s] = [k \in (DOMAIN t[s]) \cup {r} |-> IF k = r THEN v ELSE t[s][k]]]
    ELSE [k \in (DOMAIN t) \cup {s} |-> IF k = s THEN [j \in {r} |-> v] ELSE t[k]]

(***************************************************************************)
(* config.json as JSON text.  An object is the sequence of its members in    *)
(* the order written; a number is the decimal text of a float: sign, integer *)
(* part and the digits after the point.                                      *)
(***************************************************************************)
\* the keys of the model in the order sort_keys=True writes them
KeyOrder == <<"100000000.0", "12345", "50000000.0", "777">>
SortedKeys(S) == SelectSeq(KeyOrder, LAMBDA k : k \in S)

RECURSIVE FracDigits(_, _)
\* the digits after the point of r / d, for 0 <= r < d and d dividing a power of 10
FracDigits(r, d) ==
    IF r = 0 THEN <<>> ELSE <<(10 * r) \div d>> \o FracDigits((10 * r) % d, d)

\* the digits after the point are cut after the first one
FloatRepr_OneDigit(v) ==
    IF v = NaN THEN [tok |-> "NaN", neg |-> FALSE, int |-> 0, frac |-> <<>>]
    ELSE IF ~IsFinite(v)
    THEN [tok |-> "Infinity", neg |-> v[1] < 0, int |-> 0, frac |-> <<>>]
    ELSE LET a == Abs(v[1])
             f == FracDigits(a % v[2], v[2])
         IN  [tok |-> "num", neg |-> v[1] < 0, int |-> a \div v[2],
              frac |-> IF f = <<>> THEN <<0>> ELSE <<f[1]>>]

\* json.dump of a float: float.__repr__, or NaN, Infinity, -Infinity
FloatRepr(v) ==
    IF v = NaN THEN [tok |-> "NaN", neg |-> FALSE, int |-> 0, frac |-> <<>>]
    ELSE IF ~IsFinite(v)
    THEN [tok |-> "Infinity", neg |-> v[1] < 0, int |-> 0, frac |-> <<>>]
    ELSE LET a == Abs(v[1])
             f == FracDigits(a % v[2], v[2])
         IN  [tok |-> "num", neg |-> v[1] < 0, int |-> a \div v[2],
              frac |-> IF f = <<>> THEN <<0>> ELSE f]

RECURSIVE Pow10(_)
Pow10(k) == IF k = 0 THEN 1 ELSE 10 * Pow10(k - 1)

RECURSIVE DigitsValue(_)
DigitsValue(ds) ==
    IF ds = <<>> THEN 0
    ELSE 10 * DigitsValue(SubSeq(ds, 1, Len(ds) - 1)) + ds[Len(ds)]

\* the sign of the number is dropped
ParseFloat_Unsigned(t) ==
    IF t.tok = "NaN" THEN NaN
    ELSE IF t.tok = "Infinity" THEN <<1, 0>>
    ELSE Rat(t.int * Pow10(Len(t.frac)) + DigitsValue(t.frac), Pow10(Len(t.frac)))

\* json.load of a number
ParseFloat(t) ==
    IF t.tok = "NaN" THEN NaN
    ELSE IF t.tok = "Infinity" THEN <<(IF t.neg THEN -1 ELSE 1), 0>>
    ELSE LET p == Pow10(Len(t.frac))
             m == t.int * p + DigitsValue(t.frac)
         IN  Rat((IF t.neg THEN -m ELSE m), p)

\* json.dump(new_config, cfg_file, sort_keys=True, indent=4)
json_dump(t) ==
    LET ss == SortedKeys(DOMAIN t)
    IN  [i \in 1..Len(ss) |->
            LET rs == SortedKeys(DOMAIN t[ss[i]])
            IN  [key |-> ss[i],
                 obj |-> [j \in 1..Len(rs) |->
                            [key |-> rs[j], num |-> FloatRepr(t[ss[i]][rs[j]])]]]]

\* json.load(cfg_file)
json_load(text) ==
    [s \in {text[i].key : i \in DOMAIN text} |->
        LET o == text[CHOOSE i \in DOMAIN text : text[i].key = s].obj
        IN  [r \in {o[j].key : j \in DOMAIN o} |->
                ParseFloat(o[CHOOSE j \in DOMAIN o : o[j].key = r].num)]]

\* config.json after json.dump(t) was written to it
Stored(t) == [exists |-> TRUE, text |-> json_dump(t)]

T0 == Rat(314, 100)
InitTables ==
    { EmptyTable,
      SetEntry(EmptyTable, "777", "100000000.0", T0),
      SetEntry(SetEntry(EmptyTable, "777", "100000000.0", T0),
               "12345", "50000000.0", T0),
      SetEntry(EmptyTable, "12345", "100000000.0", RInt(0)),
      SetEntry(SetEntry(EmptyTable, "777", "50000000.0", T0),
               "12345", "100000000.0", Rat(-5, 100)) }

\* a pulse: three samples around 0-based index pos, zero elsewhere
Capture(desc, len) ==
    [k \in 1..len |-> IF k - 1 = desc.pos - 1 THEN desc.tri[1]
                      ELSE IF k - 1 = desc.pos THEN desc.tri[2]
                      ELSE IF k - 1 = desc.pos + 1 THEN desc.tri[3]
                      ELSE 0]
Pulse(p, t) == [pos |-> p, tri |-> t]
Sym   == <<1, 4, 1>>
Early == <<2, 4, 1>>
Late  == <<1, 3, 2>>
NegP  == <<-1, -4, -2>>

\* plan[1] is captured on even acquisitions, plan[2] on odd ones
Plans ==
    { \* no jitter, no skew
      << [c1 |-> Pulse(2, Sym), c2 |-> Pulse(2, Sym)],
         [c1 |-> Pulse(2, Sym), c2 |-> Pulse(2, Sym)] >>,
      \* sub-sample jitter and skew
      << [c1 |-> Pulse(2, Sym),   c2 |-> Pulse(2, Late)],
         [c1 |-> Pulse(2, Early), c2 |-> Pulse(2, NegP)] >>,
      \* whole-sample trigger jitter, the same on both channels
      << [c1 |-> Pulse(1, Sym), c2 |-> Pulse(1, Sym)],
         [c1 |-> Pulse(3, Sym), c2 |-> Pulse(3, Sym)] >> }

\* lines 110-112: t_c = gausspulse("cutoff", ...); steps = np.arange(...);
\* signal = gausspulse(steps, 1e6, 1.1)
CalSignal(f) == IF f = 100 THEN <<0, -2, 4, -2, 0>> ELSE <<0, 4, 0>>

\* the settings the user made before the call
UserGen ==
    { [signal_type |-> "sine", mode |-> "continuous", is_out_on |-> FALSE,
       burst_cnt |-> 4, freq_mode |-> "signal", freq |-> 1, amplitude |-> 2,
       arb |-> <<0, 1, 0>>] }
UserOsz ==
    { [resolution |-> 14, trig_timeout |-> 1, ch0_range |-> 8, ch1_range |-> 4,
       ch0_trig_en |-> TRUE, ch1_trig_en |-> FALSE, trig_ins_3_en |-> FALSE,
       record_length |-> 6, serial_no |-> 12345, sample_freq |-> 100] }
ChEnabled == { <<TRUE, TRUE>>, <<TRUE, FALSE>> }

NoLoc == [ idx |-> 0,                  \* position in the change / restore sequence
           old |-> <<>>,               \* the old_* locals of calculate_sync_offset
           signal |-> <<>>,            \* signal of calculate_sync_offset
           loop |-> "none",            \* whose trial loop runs: "cso" or "mjf"
           mes |-> 0,                  \* loop variable of that loop
           pos_max_ch1 |-> RInt(0),    \* accumulators of max_position
           pos_max_ch2 |-> RInt(0),
           sync_offset |-> NaN,        \* sync_offset of either routine
           current |-> EmptyTable,     \* current of calculate_sync_offset
           data |-> <<>>,              \* result of the last _measurement
           gen_signal |-> <<>>,        \* arguments of measurement_jitter_free
           n_avg |-> 0,
           ch_1 |-> <<>>,              \* result lists of measurement_jitter_free
           ch_2 |-> <<>>,
           jit_free |-> <<>>,
           diffs |-> RInt(0),          \* history: sum over the trials of peak1 - peak2
           calAcq |-> 0 ]              \* history: acquisitions of this calibration
NoOutcome == [kind |-> "none", exc |-> "none", at |-> "none", loop |-> "none",
              offset |-> NaN, acquisitions |-> 0,
              ch_1 |-> <<>>, ch_2 |-> <<>>, jit_free |-> <<>>, n_avg |-> 0,
              gen_signal |-> <<>>]
NoTr == [mjf_acq |-> 0, prompts |-> 0, loads |-> 0, saves |-> 0, writes |-> 0,
         cal |-> FALSE, answers |-> <<>>, caps |-> <<>>]
NoPre == [set |-> FALSE]

Init ==
    /\ gen \in UserGen
    /\ genAttr = "method"
    /\ genRunning = FALSE
    /\ \E o \in UserOsz, e \in ChEnabled : osz = [ch_enabled |-> e] @@ o
    /\ oszState = "idle"
    /\ phase = 0
    /\ plan \in Plans
    /\ file \in {Stored(t) : t \in InitTables} \cup {Absent}
    /\ pc = "idle"
    /\ loc = NoLoc
    /\ outcome = NoOutcome
    /\ pre = NoPre
    /\ tr = NoTr

(***************************************************************************)
(* Calls, returns and exceptions                                            *)
(***************************************************************************)
\* an exception leaves the top-level routine (nothing in jitter_free.py catches
\* it) and the frames of the call are dropped
Raise(exc) ==
    /\ pc' = "idle"
    /\ outcome' = [NoOutcome EXCEPT !.kind = "raised", !.exc = exc, !.at = pc,
                                     !.loop = loc.loop]
    /\ loc' = NoLoc

\* the caller goes on after an exception only if it is one the routine documents
CanCall ==
    /\ pc = "idle"
    /\ \/ outcome.kind \in {"none", "returned"}
       \/ outcome.exc \in {"AttributeError", "ValueError"}

\* the user calls measurement_jitter_free(gen, osz, gen_signal, n_avg, pause); line
\* 253 calls get_sync_offset at once
Call_measurement_jitter_free ==
    /\ CanCall
    /\ pc' = "gso_load"
    /\ outcome' = NoOutcome
    /\ tr' = NoTr
    /\ pre' = NoPre
    /\ UNCHANGED <<devVars, file, loc>>

\* the reference stimulus and the trial count handed to measurement_jitter_free;
\* they are first read in its loop, so they are drawn when get_sync_offset returns
RefSignals == { Capture(Pulse(2, Sym), 6), Capture(Pulse(3, Early), 6) }

\* get_sync_offset returns v into line 253; the loop of line 254 is entered
GsoReturn(v) ==
    /\ pc' = "mjf_loop"
    /\ \E g \in RefSignals, n \in 0..MaxAvg :
         loc' = [NoLoc EXCEPT !.sync_offset = v, !.gen_signal = g, !.n_avg = n,
                              !.loop = "mjf", !.diffs = loc.diffs,
                              !.calAcq = loc.calAcq]
    /\ UNCHANGED outcome

(***************************************************************************)
(* The calibration store                                                    *)
(***************************************************************************)
\* _load_sync_offset_config(): open(..., 'r') fails when there is no config.json
load_raises == ~file.exists
load_sync_offset_config == json_load(file.text)

\* config.json is left as it was
save_sync_offset_config_Skip(new_config) == file

\* _save_sync_offset_config(new_config)
save_sync_offset_config(new_config) == Stored(new_config)

Snapshot(loads) == [set |-> TRUE, gen |-> gen, genAttr |-> genAttr, osz |-> osz,
                    file |-> file, loads |-> loads]

\* the calibrator is run although the table holds the entry
GSO_LookupMiss_Always(config, s, r) == TRUE

\* lines 224-226: config[serial][rate] raises KeyError
GSO_LookupMiss(config, s, r) == ~HasEntry(config, s, r)

\* get_sync_offset, lines 223-227
GSO ==
    /\ pc = "gso_load"
    /\ UNCHANGED <<devVars, file>>
    /\ IF load_raises
       THEN /\ Raise("FileNotFoundError")
            /\ tr' = [tr EXCEPT !.loads = @ + 1]
            /\ UNCHANGED pre
       ELSE LET config == load_sync_offset_config
                s == StrSerial(osz.serial_no)
                r == StrRate(osz.sample_freq)
            IN  IF GSO_LookupMiss(config, s, r)
                THEN \* except KeyError: return calculate_sync_offset(gen, osz)
                     /\ pc' = "cso_prompt1"
                     /\ tr' = [tr EXCEPT !.loads = @ + 1, !.cal = TRUE, !.prompts = @ + 1]
                     /\ pre' = Snapshot(tr.loads + 1)
                     /\ UNCHANGED <<outcome, loc>>
                ELSE /\ GsoReturn(config[s][r])
                     /\ tr' = [tr EXCEPT !.loads = @ + 1]
                     /\ UNCHANGED pre

(***************************************************************************)
(* calculate_sync_offset                                                    *)
(***************************************************************************)
Answers == {"a", "c", "x"}

\* no answer aborts
IsAbort_Never(inp) == FALSE
\* every answer but 'a' continues
IsContinue_UnlessAbort(inp) == inp # "a"

\* lines 106 and 200: if inp == 'a'
IsAbort(inp) == inp = "a"
\* lines 108 and 202: elif inp == 'c'
IsContinue(inp) == inp = "c"

\* the device's error reaches the caller as another exception
DeviceError_Wrapped == Raise("RuntimeError")

\* the device refuses a call: the library's status check raises
DeviceError == Raise("IOError")

\* lines 103-112 and 206-207: the first prompt
CSO_Prompt1 ==
    /\ pc = "cso_prompt1"
    /\ UNCHANGED <<devVars, file, pre>>
    /\ \E inp \in Answers :
         /\ tr' = [tr EXCEPT !.answers = Append(@, inp)]
         /\ IF IsAbort(inp) THEN Raise("AttributeError")
            ELSE IF IsContinue(inp)
            THEN /\ loc' = [loc EXCEPT !.signal = CalSignal(osz.sample_freq), !.idx = 1]
                 /\ pc' = "cso_change"
                 /\ UNCHANGED outcome
            ELSE Raise("ValueError")

\* lines 115-145 in order: the property or method written, the value written, and
\* how the previous state is kept ("get": read from the device into old_*, "attr":
\* the attribute gen.arb_data itself, "no": not kept)
ChangeSeq(f, sig) ==
    << [dev |-> "gen", name |-> "signal_type",   val |-> "arbitrary",   keep |-> "get"],
       [dev |-> "gen", name |-> "mode",          val |-> "burst count", keep |-> "get"],
       [dev |-> "gen", name |-> "is_out_on",     val |-> TRUE,          keep |-> "get"],
       [dev |-> "gen", name |-> "burst_cnt",     val |-> 1,             keep |-> "get"],
       [dev |-> "gen", name |-> "freq_mode",     val |-> "sample",      keep |-> "no"],
       [dev |-> "gen", name |-> "freq",          val |-> f,             keep |-> "get"],
       [dev |-> "gen", name |-> "amplitude",     val |-> 12,            keep |-> "get"],
       [dev |-> "gen", name |-> "arb",           val |-> sig,           keep |-> "attr"],
       [dev |-> "osz", name |-> "resolution",    val |-> 12,            keep |-> "get"],
       [dev |-> "osz", name |-> "trig_timeout",  val |-> 5,             keep |-> "get"],
       [dev |-> "osz", name |-> "ch0_range",     val |-> 20,            keep |-> "get"],
       [dev |-> "osz", name |-> "ch1_range",     val |-> 20,            keep |-> "get"],
       [dev |-> "osz", name |-> "ch0_trig_en",   val |-> FALSE,         keep |-> "get"],
       [dev |-> "osz", name |-> "ch1_trig_en",   val |-> FALSE,         keep |-> "get"],
       [dev |-> "osz", name |-> "trig_ins_3_en", val |-> TRUE,          keep |-> "get"],
       [dev |-> "osz", name |-> "record_length", val |-> Len(sig),      keep |-> "get"] >>

\* lines 176-190 in order: what is assigned, and whether the assignment is a
\* property setter ("set") or binds the instance attribute gen.arb_data ("attr")
RestoreSeq ==
    << [dev |-> "gen", name |-> "signal_type",   how |-> "set"],
       [dev |-> "gen", name |-> "burst_cnt",     how |-> "set"],
       [dev |-> "gen", name |-> "mode",          how |-> "set"],
       [dev |-> "gen", name |-> "is_out_on",     how |-> "set"],
       [dev |-> "gen", name |-> "freq",          how |-> "set"],
       [dev |-> "gen", name |-> "amplitude",     how |-> "set"],
       [dev |-> "gen", name |-> "arb",           how |-> "attr"],
       [dev |-> "osz", name |-> "resolution",    how |-> "set"],
       [dev |-> "osz", name |-> "trig_timeout",  how |-> "set"],
       [dev |-> "osz", name |-> "ch0_range",     how |-> "set"],
       [dev |-> "osz", name |-> "ch1_range",     how |-> "set"],
       [dev |-> "osz", name |-> "ch0_trig_en",   how |-> "set"],
       [dev |-> "osz", name |-> "ch1_trig_en",   how |-> "set"],
       [dev |-> "osz", name |-> "trig_ins_3_en", how |-> "set"],
       [dev |-> "osz", name |-> "record_length", how |-> "set"] >>

\* the getters and setters of Generator and Oscilloscope pass the value through
DevGet(st) == IF st.dev = "gen" THEN gen[st.name] ELSE osz[st.name]
Keep(o, name, v) == [k \in (DOMAIN o) \cup {name} |-> IF k = name THEN v ELSE o[k]]

\* one line pair old_x = dev.x; dev.x = value (lines 115-145); after the last one
\* max_position() starts its loop (lines 149-151)
CSO_Change ==
    /\ pc = "cso_change"
    /\ UNCHANGED <<genAttr, genRunning, oszState, phase, plan, file, pre>>
    /\ LET st == ChangeSeq(osz.sample_freq, loc.signal)[loc.idx]
           n  == Len(ChangeSeq(osz.sample_freq, loc.signal))
           kept == IF st.keep = "get" THEN Keep(loc.old, st.name, DevGet(st))
                   ELSE IF st.keep = "attr" THEN Keep(loc.old, st.name, genAttr)
                   ELSE loc.old
       IN  \/ /\ gen' = IF st.dev = "gen" THEN [gen EXCEPT ![st.name] = st.val] ELSE gen
              /\ osz' = IF st.dev = "osz" THEN [osz EXCEPT ![st.name] = st.val] ELSE osz
              /\ tr' = [tr EXCEPT !.writes = @ + 1]
              /\ IF loc.idx < n
                 THEN /\ loc' = [loc EXCEPT !.old = kept, !.idx = @ + 1]
                      /\ pc' = pc
                 ELSE /\ loc' = [loc EXCEPT !.old = kept, !.idx = 0, !.loop = "cso",
                                            !.mes = 0, !.pos_max_ch1 = RInt(0),
                                            !.pos_max_ch2 = RInt(0)]
                      /\ pc' = "m_start"
              /\ UNCHANGED outcome
           \/ /\ DeviceError
              /\ UNCHANGED <<gen, osz, tr>>

(***************************************************************************)
(* _measurement, lines 54-60                                                *)
(***************************************************************************)
\* line 54: osz.start()
M_OszStart ==
    /\ pc = "m_start"
    /\ UNCHANGED <<gen, genAttr, genRunning, osz, phase, plan, file, pre>>
    /\ \/ /\ oszState' = "armed"
          /\ pc' = "m_gen"
          /\ tr' = IF loc.loop = "mjf" THEN [tr EXCEPT !.mjf_acq = @ + 1] ELSE tr
          /\ loc' = IF loc.loop = "cso" THEN [loc EXCEPT !.calAcq = @ + 1] ELSE loc
          /\ UNCHANGED outcome
       \/ DeviceError /\ UNCHANGED <<oszState, tr>>

\* line 55: gen.start()
M_GenStart ==
    /\ pc = "m_gen"
    /\ UNCHANGED <<gen, genAttr, osz, oszState, phase, plan, file, pre, tr>>
    /\ \/ /\ genRunning' = TRUE
          /\ pc' = "m_wait"
          /\ UNCHANGED <<outcome, loc>>
       \/ DeviceError /\ UNCHANGED genRunning

\* the started generator triggers the armed oscilloscope, which fills its record
DeviceDataReady ==
    /\ oszState = "armed"
    /\ genRunning
    /\ oszState' = "ready"
    /\ UNCHANGED <<gen, genAttr, genRunning, osz, phase, plan, file, pc,
                   loc, outcome, pre, tr>>

\* the wait is given up after a poll that found no data
M_Poll_GivesUp ==
    /\ pc = "m_wait"
    /\ oszState # "ready"
    /\ pc' = "m_stop"
    /\ UNCHANGED <<devVars, file, loc, outcome, pre, tr>>

\* lines 56-57: osz.is_data_ready is false, time.sleep(0.05)
M_PollNotReady ==
    /\ pc = "m_wait"
    /\ oszState # "ready"
    /\ UNCHANGED vars

\* Oscilloscope.retrieve_ch1_ch2: a buffer per enabled channel, None otherwise
retrieve_ch1_ch2 ==
    LET c == plan[phase + 1]
    IN  << IF osz.ch_enabled[1] THEN Capture(c.c1, osz.record_length) ELSE None,
           IF osz.ch_enabled[2] THEN Capture(c.c2, osz.record_length) ELSE None >>

\* lines 56 and 58: the flag is seen true, data = osz.retrieve_ch1_ch2()
M_Retrieve ==
    /\ pc = "m_wait"
    /\ oszState = "ready"
    /\ UNCHANGED <<gen, genAttr, genRunning, osz, oszState, plan, file, pre>>
    /\ \/ /\ loc' = [loc EXCEPT !.data = retrieve_ch1_ch2]
          /\ tr' = IF loc.loop = "mjf"
                   THEN [tr EXCEPT !.caps = Append(@, retrieve_ch1_ch2)] ELSE tr
          /\ phase' = 1 - phase
          /\ pc' = "m_stop"
          /\ UNCHANGED outcome
       \/ DeviceError /\ UNCHANGED <<phase, tr>>

\* _measurement returns without gen.stop()
M_GenStop_LeavesRunning ==
    /\ pc = "m_stop"
    /\ pc' = IF loc.loop = "cso" THEN "cso_acc" ELSE "mjf_align"
    /\ UNCHANGED <<devVars, file, pre, tr, outcome, loc>>

\* lines 59-60: gen.stop(); return data
M_GenStop ==
    /\ pc = "m_stop"
    /\ UNCHANGED <<gen, genAttr, osz, oszState, phase, plan, file, pre, tr>>
    /\ \/ /\ genRunning' = FALSE
          /\ pc' = IF loc.loop = "cso" THEN "cso_acc" ELSE "mjf_align"
          /\ UNCHANGED <<outcome, loc>>
       \/ DeviceError /\ UNCHANGED genRunning

(***************************************************************************)
(* max_position and the rest of calculate_sync_offset                       *)
(***************************************************************************)
\* the loop stops one trial early
MoreTrials_OneShort(m) == m + 2 < CalTrials

\* range(0, int(1e4)): is there another trial after trial number m
MoreTrials(m) == m + 1 < CalTrials

\* lines 153-156: the two accumulators after one trial, and the loop test
CSO_Accumulate ==
    /\ pc = "cso_acc"
    /\ UNCHANGED <<devVars, file, pre, tr>>
    /\ LET p1 == intersample_peak(loc.data[1])
           p2 == intersample_peak(loc.data[2])
       IN  IF p1.err # "none" THEN Raise(p1.err)
           ELSE IF p2.err # "none" THEN Raise(p2.err)
           ELSE /\ loc' = [loc EXCEPT !.pos_max_ch1 = RAdd(@, p1.v),
                                      !.pos_max_ch2 = RAdd(@, p2.v),
                                      !.diffs = RAdd(@, RSub(p1.v, p2.v)),
                                      !.mes = @ + 1]
                /\ pc' = IF MoreTrials(loc.mes) THEN "m_start" ELSE "cso_offset"
                /\ UNCHANGED outcome

\* lines 160-163
max_position_result(s1, s2) ==
    Round2(RSub(RDivInt(s1, CalTrials), RDivInt(s2, CalTrials)))

\* line 165
CSO_Offset ==
    /\ pc = "cso_offset"
    /\ loc' = [loc EXCEPT !.sync_offset = max_position_result(loc.pos_max_ch1,
                                                              loc.pos_max_ch2),
                          !.loop = "none"]
    /\ pc' = "cso_load"
    /\ UNCHANGED <<devVars, file, outcome, pre, tr>>

\* line 168: current = _load_sync_offset_config()
CSO_Load ==
    /\ pc = "cso_load"
    /\ tr' = [tr EXCEPT !.loads = @ + 1]
    /\ UNCHANGED <<devVars, file, pre>>
    /\ IF load_raises
       THEN Raise("FileNotFoundError")
       ELSE /\ loc' = [loc EXCEPT !.current = load_sync_offset_config]
            /\ pc' = "cso_save"
            /\ UNCHANGED outcome

\* lines 169-173: the entry is set and the table written back
CSO_Save ==
    /\ pc = "cso_save"
    /\ UNCHANGED <<devVars, pre>>
    /\ \/ /\ file' = save_sync_offset_config(
                        SetEntry(loc.current, StrSerial(osz.serial_no),
                                 StrRate(osz.sample_freq), loc.sync_offset))
          /\ tr' = [tr EXCEPT !.saves = @ + 1]
          /\ pc' = "cso_restore"
          /\ loc' = [loc EXCEPT !.idx = 1]
          /\ UNCHANGED outcome
       \/ \* config.json cannot be opened for writing
          Raise("PermissionError") /\ UNCHANGED <<file, tr>>

\* one assignment of lines 176-190; after the last one the second prompt is shown
CSO_Restore ==
    /\ pc = "cso_restore"
    /\ UNCHANGED <<genRunning, oszState, phase, plan, file, pre>>
    /\ LET st   == RestoreSeq[loc.idx]
           last == loc.idx = Len(RestoreSeq)
       IN  \/ /\ gen' = IF st.dev = "gen" /\ st.how = "set"
                        THEN [gen EXCEPT ![st.name] = loc.old[st.name]] ELSE gen
              /\ osz' = IF st.dev = "osz" /\ st.how = "set"
                        THEN [osz EXCEPT ![st.name] = loc.old[st.name]] ELSE osz
              /\ genAttr' = IF st.how = "attr" THEN "shadowed" ELSE genAttr
              /\ tr' = [tr EXCEPT !.writes = IF st.how = "set" THEN @ + 1 ELSE @,
                                  !.prompts = IF last THEN @ + 1 ELSE @]
              /\ loc' = [loc EXCEPT !.idx = IF last THEN 0 ELSE @ + 1]
              /\ pc' = IF last THEN "cso_prompt2" ELSE pc
              /\ UNCHANGED outcome
           \/ /\ st.how = "set"
              /\ DeviceError
              /\ UNCHANGED <<gen, osz, genAttr, tr>>

\* lines 197-205: the second prompt
CSO_Prompt2 ==
    /\ pc = "cso_prompt2"
    /\ UNCHANGED <<devVars, file, pre>>
    /\ \E inp \in Answers :
         /\ tr' = [tr EXCEPT !.answers = Append(@, inp)]
         /\ IF IsAbort(inp) THEN Raise("AttributeError")
            ELSE IF IsContinue(inp) THEN GsoReturn(loc.sync_offset)
            ELSE Raise("ValueError")

(***************************************************************************)
(* measurement_jitter_free, lines 254-270                                   *)
(***************************************************************************)
\* the loop runs one trial more
MJF_More_Inclusive(m, n_avg) == m <= n_avg

\* line 254, for mes in range(0, n_avg): is there a trial number m
MJF_More(m, n_avg) == m < n_avg

\* line 254 and line 270
MJF_Loop ==
    /\ pc = "mjf_loop"
    /\ UNCHANGED <<devVars, file, pre, tr>>
    /\ IF MJF_More(loc.mes, loc.n_avg)
       THEN /\ pc' = "m_start"
            /\ UNCHANGED <<loc, outcome>>
       ELSE /\ pc' = "idle"
            /\ outcome' = [NoOutcome EXCEPT !.kind = "returned",
                              !.offset = loc.sync_offset, !.ch_1 = loc.ch_1,
                              !.ch_2 = loc.ch_2, !.jit_free = loc.jit_free,
                              !.n_avg = loc.n_avg, !.gen_signal = loc.gen_signal,
                              !.acquisitions = loc.calAcq + tr.mjf_acq]
            /\ loc' = NoLoc

\* the sync offset is left out of the deviation
deviation_NoOffset(max_pos_x_0, max_pos_channel_1, offset) ==
    RSub(max_pos_x_0, max_pos_channel_1)

\* line 261
deviation(max_pos_x_0, max_pos_channel_1, offset) ==
    RAdd(RSub(max_pos_x_0, max_pos_channel_1), offset)

\* lines 258-268
MJF_Align ==
    /\ pc = "mjf_align"
    /\ UNCHANGED <<devVars, file, pre, tr>>
    /\ LET p0 == intersample_peak(loc.gen_signal)
           p1 == intersample_peak(loc.data[1])
       IN  IF p0.err # "none" THEN Raise(p0.err)
           ELSE IF p1.err # "none" THEN Raise(p1.err)
           ELSE IF loc.data[2] = None THEN Raise("TypeError")
           ELSE LET diff == deviation(p0.v, p1.v, loc.sync_offset)
                    jitter_free_cur == interp_shift(diff, loc.data[2])
                IN  /\ loc' = [loc EXCEPT !.ch_1 = Append(@, loc.data[1]),
                                          !.ch_2 = Append(@, loc.data[2]),
                                          !.jit_free = Append(@, jitter_free_cur),
                                          !.mes = @ + 1]
                    /\ pc' = "mjf_loop"
                    /\ UNCHANGED outcome

Next ==
    \/ Call_measurement_jitter_free
    \/ GSO
    \/ CSO_Prompt1
    \/ CSO_Change
    \/ M_OszStart
    \/ M_GenStart
    \/ DeviceDataReady
    \/ M_PollNotReady
    \/ M_Retrieve
    \/ M_GenStop
    \/ CSO_Accumulate
    \/ CSO_Offset
    \/ CSO_Load
    \/ CSO_Save
    \/ CSO_Restore
    \/ CSO_Prompt2
    \/ MJF_Loop
    \/ MJF_Align

Spec == Init /\ [][Next]_vars

(***************************************************************************)
(* _save_sync_offset_config followed by _load_sync_offset_config, for any    *)
(* table.  The devices take no part.                                         *)
(***************************************************************************)
NoDevice == [used |-> FALSE]

\* offsets a table may hold: decimal fractions and the two infinities
TableValues == { T0, RInt(0), Rat(-5, 100), Rat(12125, 1000), <<-1, 0>> }
TableSerials == {"12345", "777"}
TableRates == {"100000000.0", "50000000.0"}

\* the dicts of rate -> offset, the empty one included
RateMaps ==
    UNION { [R -> TableValues] : R \in SUBSET TableRates }
\* the dicts of serial -> (rate -> offset)
AllTables ==
    UNION { [S -> RateMaps] : S \in SUBSET TableSerials }

StoreInit ==
    /\ gen = NoDevice /\ genAttr = "method" /\ genRunning = FALSE
    /\ osz = NoDevice /\ oszState = "idle" /\ phase = 0 /\ plan = <<>>
    /\ file \in {Absent, Stored(SetEntry(EmptyTable, "777", "50000000.0", T0))}
    /\ pc = "store_save"
    /\ \E t \in AllTables : loc = [new_config |-> t, config |-> EmptyTable]
    /\ outcome = NoOutcome
    /\ pre = NoPre
    /\ tr = NoTr

\* _save_sync_offset_config(new_config), lines 63-79
Store_Save ==
    /\ pc = "store_save"
    /\ file' = save_sync_offset_config(loc.new_config)
    /\ pc' = "store_load"
    /\ UNCHANGED <<devVars, loc, outcome, pre, tr>>

\* config = _load_sync_offset_config(), lines 26-43
Store_Load ==
    /\ pc = "store_load"
    /\ ~load_raises
    /\ loc' = [loc EXCEPT !.config = load_sync_offset_config]
    /\ pc' = "store_done"
    /\ UNCHANGED <<devVars, file, outcome, pre, tr>>

StoreNext == Store_Save \/ Store_Load

StoreSpec == StoreInit /\ [][StoreNext]_vars

(***************************************************************************)
(* One _measurement, with a program that keeps running and an oscilloscope   *)
(* that fills its record once it is armed and the generator runs.            *)
(***************************************************************************)
MeasInit ==
    /\ gen \in UserGen
    /\ genAttr = "method"
    /\ genRunning = FALSE
    /\ \E o \in UserOsz, e \in ChEnabled : osz = [ch_enabled |-> e] @@ o
    /\ oszState = "idle"
    /\ phase \in {0, 1}
    /\ plan \in Plans
    /\ file \in {Absent, Stored(EmptyTable)}
    /\ pc = "m_start"
    /\ \E l \in {"cso", "mjf"} : loc = [NoLoc EXCEPT !.loop = l]
    /\ outcome = NoOutcome
    /\ pre = NoPre
    /\ tr = NoTr

MeasNext ==
    \/ M_OszStart
    \/ M_GenStart
    \/ DeviceDataReady
    \/ M_PollNotReady
    \/ M_Retrieve
    \/ M_GenStop

\* the interpreter keeps executing the routine; the armed oscilloscope, triggered by
\* the running generator, does fill its record
MeasSpec ==
    /\ MeasInit
    /\ [][MeasNext]_vars
    /\ WF_vars(M_OszStart) /\ WF_vars(M_GenStart) /\ WF_vars(M_Retrieve)
    /\ WF_vars(M_GenStop)
    /\ WF_vars(DeviceDataReady)

(***************************************************************************)
(* Two calibrations in two Python processes, each with its own devices,      *)
(* that have finished their trials and now update the one config.json        *)
(* (lines 168-173).  Nothing in jitter_free.py locks the file.               *)
(***************************************************************************)
Procs == {1, 2}
Other(p) == IF p = 1 THEN 2 ELSE 1

\* (serial, rate) of the two devices: another serial, or the same serial at another
\* sample rate
ConcKeys ==
    { << <<"12345", "100000000.0">>, <<"777", "100000000.0">> >>,
      << <<"12345", "100000000.0">>, <<"12345", "50000000.0">> >> }
ConcOffsets == { T0, Rat(-18, 100) }

ConcInit ==
    /\ gen = NoDevice /\ genAttr = "method" /\ genRunning = FALSE
    /\ osz = NoDevice /\ oszState = "idle" /\ phase = 0 /\ plan = <<>>
    /\ file \in { Absent, Stored(EmptyTable),
                   Stored(SetEntry(EmptyTable, "777", "50000000.0", T0)) }
    /\ pc = [p \in Procs |-> "cso_load"]
    /\ \E ks \in ConcKeys, v1 \in ConcOffsets, v2 \in ConcOffsets :
         loc = [p \in Procs |->
                  [key |-> ks[p], sync_offset |-> IF p = 1 THEN v1 ELSE v2,
                   current |-> EmptyTable]]
    /\ outcome = [p \in Procs |-> "none"]
    /\ pre = NoPre
    /\ tr = <<>>

\* line 168 in process p: current = _load_sync_offset_config()
Conc_Load(p) ==
    /\ pc[p] = "cso_load"
    /\ IF load_raises
       THEN /\ pc' = [pc EXCEPT ![p] = "raised"]
            /\ outcome' = [outcome EXCEPT ![p] = "FileNotFoundError"]
            /\ UNCHANGED loc
       ELSE /\ pc' = [pc EXCEPT ![p] = "cso_save"]
            /\ loc' = [loc EXCEPT ![p].current = load_sync_offset_config]
            /\ UNCHANGED outcome
    /\ tr' = Append(tr, [op |-> "load", by |-> p])
    /\ UNCHANGED <<devVars, file, pre>>

\* the file is read again and the entry set in what it holds now
Conc_Save_Merge(p) ==
    /\ pc[p] = "cso_save"
    /\ file' = save_sync_offset_config(
                  SetEntry(load_sync_offset_config, loc[p].key[1], loc[p].key[2],
                           loc[p].sync_offset))
    /\ pc' = [pc EXCEPT ![p] = "done"]
    /\ tr' = Append(tr, [op |-> "save", by |-> p])
    /\ UNCHANGED <<devVars, loc, outcome, pre>>

\* lines 169-173 in process p: the entry is set in current and current written
Conc_Save(p) ==
    /\ pc[p] = "cso_save"
    /\ file' = save_sync_offset_config(
                  SetEntry(loc[p].current, loc[p].key[1], loc[p].key[2],
                           loc[p].sync_offset))
    /\ pc' = [pc EXCEPT ![p] = "done"]
    /\ tr' = Append(tr, [op |-> "save", by |-> p])
    /\ UNCHANGED <<devVars, loc, outcome, pre>>

ConcNext ==
    \/ \E p \in Procs : Conc_Load(p)
    \/ \E p \in Procs : Conc_Save(p)

ConcSpec == ConcInit /\ [][ConcNext]_vars

(***************************************************************************)
(* _intersample_peak called on its own, for any short waveform and for       *)
(* sampled parabolas.                                                        *)
(***************************************************************************)
\* all waveforms of 1..MaxPeakLen integer samples
SmallWaves ==
    UNION { [1..n -> (-MaxSample)..MaxSample] : n \in 1..MaxPeakLen }

\* the parabola top - 16 (k - m/4)^2 sampled at k = 0..len-1: apex at m/4
Parabola(top, m, len) ==
    [k \in 1..len |-> top - (4 * (k - 1) - m) * (4 * (k - 1) - m)]
ParabolaTops == {150, 40}
\* apex positions m/4 with 0 < m/4 < len - 1
ParabolaApexes(len) == 1..(4 * (len - 1) - 1)

\* what a caller made of the estimate
NoUse == [pos_max_ch1 |-> RInt(0), offset |-> RInt(0), diff |-> RInt(0),
          jitter_free_cur |-> <<>>]

\* the other waveform of a trial, with its peak at sample 2
PeakOther == <<0, 1, 4, 1>>

PeakInit ==
    /\ gen = NoDevice /\ genAttr = "method" /\ genRunning = FALSE
    /\ osz = NoDevice /\ oszState = "idle" /\ phase = 0 /\ plan = <<>>
    /\ file = Absent
    /\ pc = "peak_call"
    /\ \/ \E w \in SmallWaves :
            loc = [signal |-> w, shape |-> "any", p |-> NaN,
                   result |-> [err |-> "none", v |-> NaN], use |-> NoUse]
       \/ \E top \in ParabolaTops, m \in ParabolaApexes(MaxPeakLen) :
            loc = [signal |-> Parabola(top, m, MaxPeakLen), shape |-> "parabola",
                   p |-> Rat(m, 4), result |-> [err |-> "none", v |-> NaN],
                   use |-> NoUse]
    /\ outcome = NoOutcome
    /\ pre = [set |-> FALSE, signal |-> loc.signal]
    /\ tr = NoTr

\* result = _intersample_peak(signal); line 19 binds the local name signal to a new
\* array, the caller's array is not written
Peak_Call ==
    /\ pc = "peak_call"
    /\ loc' = [loc EXCEPT !.result = intersample_peak(loc.signal)]
    /\ pc' = "peak_done"
    /\ UNCHANGED <<devVars, file, outcome, pre, tr>>

\* lines 153-163 for the last trial of max_position: the earlier trials put their
\* peaks at sample 2 on both channels, this one has signal on channel 1
Peak_Accumulate ==
    /\ pc = "peak_done"
    /\ loc.result.err = "none"
    /\ LET earlier     == RInt(2 * (CalTrials - 1))
           pos_max_ch1 == RAdd(earlier, loc.result.v)
           pos_max_ch2 == RAdd(earlier, intersample_peak(PeakOther).v)
       IN  loc' = [loc EXCEPT !.use.pos_max_ch1 = pos_max_ch1,
                              !.use.offset = max_position_result(pos_max_ch1, pos_max_ch2)]
    /\ pc' = "peak_summed"
    /\ UNCHANGED <<devVars, file, outcome, pre, tr>>

\* sync offsets a trial may be given
PeakOffsets == {RInt(0), Rat(-3, 2)}

\* lines 258-263 for one trial whose two captures are signal
Peak_Deviate ==
    /\ pc = "peak_done"
    /\ loc.result.err = "none"
    /\ \E sync_offset \in PeakOffsets :
         LET diff == deviation(intersample_peak(PeakOther).v, loc.result.v, sync_offset)
         IN  loc' = [loc EXCEPT !.use.diff = diff,
                                !.use.jitter_free_cur = interp_shift(diff, loc.signal)]
    /\ pc' = "peak_deviated"
    /\ UNCHANGED <<devVars, file, outcome, pre, tr>>

PeakNext == Peak_Call \/ Peak_Accumulate \/ Peak_Deviate

PeakSpec == PeakInit /\ [][PeakNext]_vars

(***************************************************************************)
(* Oscilloscope.retrieve, tiepie/oscilloscope.py lines 94-144, for any      *)
(* argument and any enabling of the channels.                               *)
(***************************************************************************)
ChannelCnt == 3
MaxNos == 2
MaxRecord == 3

RoundInt_Floor(p) == RFloor(p)

\* round(x) of one argument: the nearest integer, ties to the even one
RoundInt(p) ==
    LET f  == RFloor(p)
        r2 == RSub(RMul(p, RInt(2)), RInt(2 * f))
    IN  IF RLt(r2, RInt(1)) THEN f
        ELSE IF RLt(RInt(1), r2) THEN f + 1
        ELSE IF f % 2 = 0 THEN f ELSE f + 1

\* _get_sample_cnts: <<sample_start_cnt, valid_sample_cnt>>
get_sample_cnts(o) ==
    IF o.measure_mode = "block"
    THEN LET post_sample_cnt  == RoundInt(RMul(RSub(RInt(1), o.pre_sample_ratio),
                                               RInt(o.record_length)))
             valid_sample_cnt == post_sample_cnt + o.valid_pre_sample_cnt
         IN  <<o.record_length - valid_sample_cnt, valid_sample_cnt>>
    ELSE <<0, o.record_length>>

\* the argument channel_nos: None, or a list of numbers
NosNone == [given |-> FALSE, nos |-> <<>>]
NosList(l) == [given |-> TRUE, nos |-> l]
NosArgs ==
    {NosNone} \cup
    { NosList(l) : l \in UNION { [1..n -> 0..(ChannelCnt + 1)] : n \in 0..MaxNos } }

\* settings of the instrument that retrieve reads.  Of the record_length samples
\* those that are not post samples precede the trigger, and the instrument reports
\* at most that many as valid pre samples
RetrOsz ==
    { o \in [ enabled : [1..ChannelCnt -> BOOLEAN],
              measure_mode : {"block", "stream", "unknown"},
              pre_sample_ratio : {RInt(0), Rat(1, 4), Rat(1, 2), Rat(3, 4)},
              record_length : 1..MaxRecord,
              valid_pre_sample_cnt : 0..MaxRecord ] :
        /\ get_sample_cnts(o)[1] >= 0
        /\ o.measure_mode # "block" => o.valid_pre_sample_cnt = 0 }

\* sample i (0-based) of channel no in the instrument's record
DeviceSample(no, i) == 10 * no + i

\* self.channels[k], k as Python indexes a tuple of ChannelCnt items:
\* the 1-based channel reached, or 0 for IndexError
ChannelAt(k) ==
    IF k >= ChannelCnt \/ k < -ChannelCnt THEN 0
    ELSE IF k < 0 THEN ChannelCnt + k + 1
    ELSE k + 1

IsDisabled_Never(o, channel_no) == FALSE

\* self.channels[channel_no-1].is_enabled is False, line 113
IsDisabled(o, channel_no) == ~o.enabled[ChannelAt(channel_no - 1)]

\* lines 112-116 for one channel_no
CheckGiven(o, channel_no) ==
    IF ChannelAt(channel_no - 1) = 0 THEN "IndexError"
    ELSE IF IsDisabled(o, channel_no) THEN "ValueError"
    ELSE "none"

\* the loop of lines 112-116 stops at the first number that raises
CheckAllGiven(o, nos) ==
    LET bad == { i \in DOMAIN nos : CheckGiven(o, nos[i]) # "none" }
    IN  IF bad = {} THEN "none"
        ELSE CheckGiven(o, nos[CHOOSE i \in bad : \A j \in bad : i <= j])

\* lines 107-111: the numbers of the enabled channels, ascending
EnabledNos(o) == SelectSeq([c \in 1..ChannelCnt |-> c], LAMBDA c : o.enabled[c])

MaxOf_Count(nos) == Len(nos)

MaxOf(nos) == CHOOSE m \in { nos[i] : i \in DOMAIN nos } : \A i \in DOMAIN nos : nos[i] <= m

NoBuffer == [none |-> TRUE, samples |-> <<>>]

\* retrieve up to the call of ScpGetData: the exception raised, or the buffers
\* handed to the instrument
retrieve(o, arg) ==
    LET channel_nos == IF arg.given THEN arg.nos ELSE EnabledNos(o)
        check       == IF arg.given THEN CheckAllGiven(o, arg.nos) ELSE "none"
    IN  IF check # "none"
        THEN [exc |-> check, data |-> <<>>, requests |-> 0, sample_cnts |-> <<>>]
        ELSE IF channel_nos = <<>>
        THEN [exc |-> "ValueError", data |-> <<>>, requests |-> 0, sample_cnts |-> <<>>]
        ELSE LET cnts        == get_sample_cnts(o)
                 channel_cnt == MaxOf(channel_nos)
             IN  [exc |-> "none",
                  data |-> [idx \in 1..channel_cnt |->
                              IF \E i \in DOMAIN channel_nos : channel_nos[i] = idx
                              THEN [none |-> FALSE,
                                    samples |-> [k \in 1..cnts[2] |->
                                                   DeviceSample(idx, cnts[1] + k - 1)]]
                              ELSE NoBuffer],
                  requests |-> 1,
                  sample_cnts |-> cnts]

RetrInit ==
    /\ gen = NoDevice /\ genAttr = "method" /\ genRunning = FALSE
    /\ osz \in RetrOsz
    /\ oszState = "ready" /\ phase = 0 /\ plan = <<>>
    /\ file = Absent
    /\ pc = "retr_call"
    /\ \E a \in NosArgs : loc = [channel_nos |-> a]
    /\ outcome = [exc |-> "none", data |-> <<>>]
    /\ pre = NoPre
    /\ tr = [requests |-> 0, sample_cnts |-> <<>>]

\* data = osz.retrieve(channel_nos), the instrument answering the request
Retr_Call ==
    /\ pc = "retr_call"
    /\ LET r == retrieve(osz, loc.channel_nos)
       IN  /\ outcome' = [exc |-> r.exc, data |-> r.data]
           /\ tr' = [requests |-> r.requests, sample_cnts |-> r.sample_cnts]
    /\ pc' = "retr_done"
    /\ UNCHANGED <<devVars, file, loc, pre>>

\* the status check after ScpGetData raises
Retr_DeviceError ==
    /\ pc = "retr_call"
    /\ retrieve(osz, loc.channel_nos).requests = 1
    /\ outcome' = [exc |-> "IOError", data |-> <<>>]
    /\ tr' = [requests |-> 1, sample_cnts |-> retrieve(osz, loc.channel_nos).sample_cnts]
    /\ pc' = "retr_done"
    /\ UNCHANGED <<devVars, file, loc, pre>>

RetrNext == Retr_Call \/ Retr_DeviceError

RetrSpec == RetrInit /\ [][RetrNext]_vars

(***************************************************************************)
(* _check_status, handyscope/library.py lines 1678-1710, as the errcheck of  *)
(* a native call, and Device.trig_in_cnt, which reads the message it raises. *)
(* Text is a sequence of pieces; a number is written digit by digit.         *)
(***************************************************************************)
MaxStatus == 12

DigitChars == <<"0", "1", "2", "3", "4", "5", "6", "7", "8", "9">>

RECURSIVE StrNat(_)
\* str(n) for n >= 0
StrNat(n) ==
    IF n < 10 THEN <<DigitChars[n + 1]>>
    ELSE StrNat(n \div 10) \o <<DigitChars[(n % 10) + 1]>>

\* str(status_code)
StrInt(i) == IF i < 0 THEN <<"-">> \o StrNat(-i) ELSE StrNat(i)

\* '[' + str(status_code) + ']: ' + LibGetLastStatusStr().decode('utf-8')
StatusStr(status_code, text) == <<"[">> \o StrInt(status_code) \o <<"]: ", text>>

\* what the library may answer to LibGetLastStatusStr
StatusTexts == {"NOT_SUPPORTED", "UNSUCCESSFUL", "VALUE_CLIPPED"}

\* what a native function may return
NativeResults == {0, 1, 5}

NoMessage == <<>>

check_status_Strict(result, status_code, text) ==
    IF status_code # 0
    THEN [raised |-> TRUE, exc |-> "IOError", msg |-> StatusStr(status_code, text),
          value |-> 0, warned |-> <<>>]
    ELSE [raised |-> FALSE, exc |-> "none", msg |-> NoMessage,
          value |-> result, warned |-> <<>>]

\* _check_status(result, func, args) with the library's last status and its text
check_status(result, status_code, text) ==
    IF status_code # 0
    THEN IF status_code > 0
         THEN [raised |-> FALSE, exc |-> "none", msg |-> NoMessage,
               value |-> result, warned |-> <<StatusStr(status_code, text)>>]
         ELSE [raised |-> TRUE, exc |-> "IOError", msg |-> StatusStr(status_code, text),
               value |-> 0, warned |-> <<>>]
    ELSE [raised |-> FALSE, exc |-> "none", msg |-> NoMessage,
          value |-> result, warned |-> <<>>]

NoCheck == [raised |-> FALSE, exc |-> "none", msg |-> NoMessage, value |-> 0,
            warned |-> <<>>]

StatusInit ==
    /\ gen = NoDevice /\ genAttr = "method" /\ genRunning = FALSE
    /\ osz = NoDevice /\ oszState = "idle" /\ phase = 0 /\ plan = <<>>
    /\ file = Absent
    /\ pc \in {"native_call", "trig_in_cnt"}
    /\ \E r \in NativeResults, s \in (-MaxStatus)..MaxStatus, t \in StatusTexts :
            loc = [result |-> r, status_code |-> s, text |-> t]
    /\ outcome = NoCheck
    /\ pre = NoPre
    /\ tr = [checked |-> FALSE, check |-> NoCheck]

\* a call of a native function whose errcheck is _check_status
Native_Call ==
    /\ pc = "native_call"
    /\ LET c == check_status(loc.result, loc.status_code, loc.text)
       IN  /\ tr' = [checked |-> TRUE, check |-> c]
           /\ outcome' = c
    /\ pc' = "native_done"
    /\ UNCHANGED <<devVars, file, loc, pre>>

\* Device.trig_in_cnt, tiepie/device.py lines 354-362
TrigInCnt_Call ==
    /\ pc = "trig_in_cnt"
    /\ LET c == check_status(loc.result, loc.status_code, loc.text)
       IN  /\ tr' = [checked |-> TRUE, check |-> c]
           /\ outcome' =
                IF c.raised /\ c.msg = <<"[", "-", "2", "]: ", "NOT_SUPPORTED">>
                THEN [NoCheck EXCEPT !.value = 0]
                ELSE c
    /\ pc' = "native_done"
    /\ UNCHANGED <<devVars, file, loc, pre>>

StatusNext == Native_Call \/ TrigInCnt_Call

StatusSpec == StatusInit /\ [][StatusNext]_vars

(***************************************************************************)
(* I2CHost.scan, tiepie/i2cHost.py lines 167-190.  The bus is what each      *)
(* address answers to a zero-length write: the library's last status and its *)
(* text.                                                                     *)
(***************************************************************************)
ScanFirst == 8
ScanStop == 119

Ack == [code |-> 0, text |-> "OK"]
NoAck == [code |-> -15, text |-> "NO_ACKNOWLEDGE"]
BusAnswers == { Ack, NoAck,
                [code |-> -14, text |-> "NO_ACKNOWLEDGE"],
                [code |-> -1, text |-> "UNSUCCESSFUL"] }

\* the addresses whose answer varies; every other address does not acknowledge
ScanProbes == {8, 80, 118, 119}
ScanInternal == {80}

\* range(0x08, 0x77)
ScanRange == ScanFirst..(ScanStop - 1)

\* self.write(address, []): I2CWrite with the status check installed
i2c_write(bus, address) == check_status(1, bus[address].code, bus[address].text)

\* lines 181-188: the address is appended unless the write raised an OSError whose
\* first argument is "[-15]: NO_ACKNOWLEDGE"
ScanAppends(w) ==
    ~(w.raised /\ w.msg = <<"[", "-", "1", "5", "]: ", "NO_ACKNOWLEDGE">>)

ScanInit ==
    /\ gen = NoDevice /\ genAttr = "method" /\ genRunning = FALSE
    /\ osz = NoDevice /\ oszState = "idle" /\ phase = 0
    /\ \E answers \in [ScanProbes -> BusAnswers], internal \in SUBSET ScanInternal :
         plan = [bus |-> [a \in 0..127 |-> IF a \in ScanProbes THEN answers[a] ELSE NoAck],
                 internal |-> internal]
    /\ file = Absent
    /\ pc = "scan_loop"
    /\ loc = [address |-> ScanFirst, valid_addresses |-> <<>>]
    /\ outcome = [kind |-> "none", addresses |-> <<>>]
    /\ pre = NoPre
    /\ tr = [writes |-> {}]

\* one pass of the loop of lines 177-188
Scan_Address ==
    /\ pc = "scan_loop"
    /\ loc.address \in ScanRange
    /\ IF loc.address \in plan.internal
       THEN /\ loc' = [loc EXCEPT !.address = @ + 1]
            /\ UNCHANGED tr
       ELSE LET w == i2c_write(plan.bus, loc.address)
            IN  /\ loc' = [loc EXCEPT !.address = @ + 1,
                                      !.valid_addresses =
                                          IF ScanAppends(w) THEN Append(@, loc.address)
                                          ELSE @]
                /\ tr' = [tr EXCEPT !.writes = @ \cup {loc.address}]
    /\ UNCHANGED <<devVars, file, pc, outcome, pre>>

\* line 190: return tuple(valid_addresses)
Scan_Return ==
    /\ pc = "scan_loop"
    /\ loc.address \notin ScanRange
    /\ outcome' = [kind |-> "returned", addresses |-> loc.valid_addresses]
    /\ pc' = "scan_done"
    /\ UNCHANGED <<devVars, file, loc, pre, tr>>

ScanNext == Scan_Address \/ Scan_Return

ScanSpec == ScanInit /\ [][ScanNext]_vars

(***************************************************************************)
(* Properties                                                               *)
(***************************************************************************)
\* the table a reader of config.json gets
FileTable == json_load(file.text)

DevSerialKey == StrSerial(osz.serial_no)
DevRateKey   == StrRate(osz.sample_freq)

\* C1: get_sync_offset runs the calibrator exactly when the loaded table has no
\* entry for the device's serial and sample rate (serial absent, or serial present
\* and rate absent).  On a hit the stored value is returned and nothing else
\* happens: no prompt, no setting written, no acquisition, no store write.  On a
\* miss the value returned is the calibrator's result.
C1_LookupThenCalibrate ==
    [][ /\ (pc = "gso_load" /\ file.exists) =>
            LET t == FileTable
                absent == \/ DevSerialKey \notin DOMAIN t
                          \/ (DevSerialKey \in DOMAIN t /\ DevRateKey \notin DOMAIN t[DevSerialKey])
            IN  IF absent
                THEN pc' = "cso_prompt1" /\ tr'.cal
                ELSE /\ pc' = "mjf_loop"
                     /\ loc'.sync_offset = t[DevSerialKey][DevRateKey]
                     /\ ~tr'.cal
                     /\ tr'.prompts = 0 /\ tr'.writes = 0 /\ tr'.saves = 0
                     /\ tr'.mjf_acq = 0 /\ loc'.calAcq = 0
                     /\ UNCHANGED <<devVars, file>>
        /\ (pc = "cso_prompt2" /\ pc' = "mjf_loop") => loc'.sync_offset = loc.sync_offset
      ]_vars

\* a calibration was run on a miss and its result has been returned
C1_Witness == pc = "mjf_loop" /\ tr.cal /\ loc.mes = 0 /\ IsFinite(loc.sync_offset)

\* C2: when the second prompt is shown, every generator and oscilloscope setting
\* changed for the calibration holds the value it had before the calibration.
C2_AllRestoredAtSecondPrompt ==
    pc = "cso_prompt2" => (gen = pre.gen /\ osz = pre.osz)

\* an exception has left calculate_sync_offset
RaisedInCalibrator ==
    /\ outcome.kind = "raised"
    /\ \/ outcome.at \in {"cso_prompt1", "cso_change", "cso_acc", "cso_load", "cso_save",
                          "cso_restore", "cso_prompt2"}
       \/ outcome.loop = "cso"

\* C3: when an exception leaves the calibrator after a setting was changed, the
\* generator and oscilloscope settings are back at their pre-calibration values.
C3_RestoredWhenRaised ==
    (RaisedInCalibrator /\ tr.writes > 0) => (gen = pre.gen /\ osz = pre.osz)

\* w is ref delayed by s samples (zero outside the record)
IsShifted(w, ref, s) ==
    /\ Len(w) = Len(ref)
    /\ \A i \in 1..Len(ref) :
         w[i] = IF (i - s) \in 1..Len(ref) THEN ref[i - s] ELSE 0

\* the shifts by which both captures of trial t are the reference, delayed
TrialShifts(t) ==
    LET ref == outcome.gen_signal
    IN  { s \in (1 - Len(ref))..(Len(ref) - 1) :
            /\ IsShifted(outcome.ch_1[t], ref, s)
            /\ IsShifted(outcome.ch_2[t], ref, s) }

\* C4: with sync offset 0, in a trial whose two captures are the reference waveform
\* delayed by the same integer shift s, the corrected channel 2 equals the unshifted
\* reference at every sample that is at least |s| samples away from both record edges.
C4_ShiftRemoved ==
    (outcome.kind = "returned" /\ outcome.offset = RInt(0)) =>
        \A t \in 1..Len(outcome.jit_free) : \A s \in TrialShifts(t) :
            \A i \in 1..Len(outcome.gen_signal) :
                ((i - s) \in 1..Len(outcome.gen_signal) /\ (i + s) \in 1..Len(outcome.gen_signal))
                    => outcome.jit_free[t][i] = RInt(outcome.gen_signal[i])

\* linear interpolation of the samples fp, given on the grid 0..len-1, at position x:
\* the weighted mean of the two neighbouring samples, the edge sample outside the grid
LinearInterpAt(fp, x) ==
    IF RLt(x, RInt(0)) THEN RInt(fp[1])
    ELSE IF RLt(RInt(Len(fp) - 1), x) THEN RInt(fp[Len(fp)])
    ELSE LET j == CHOOSE j \in 0..(Len(fp) - 1) :
                      /\ RLe(RInt(j), x)
                      /\ (RLe(x, RInt(j + 1)) /\ j + 1 < Len(fp)) \/ (x = RInt(j))
             w == RSub(x, RInt(j))
         IN  IF w = RInt(0) THEN RInt(At(fp, j))
             ELSE RAdd(RMul(RSub(RInt(1), w), RInt(At(fp, j))),
                       RMul(w, RInt(At(fp, j + 1))))

\* C5: in every trial the corrected channel 2 is the linear interpolation of the raw
\* channel-2 samples at the positions k + deviation, k = 0..len-1, with deviation =
\* peak(reference) - peak(captured channel 1) + sync_offset; the sync offset is the
\* one value resolved before the first trial and does not change during the trials.
C5_CorrectionIsInterpolation ==
    [][ /\ (pc = "mjf_align" /\ pc' = "mjf_loop") =>
            LET ch1 == loc.data[1]
                ch2 == loc.data[2]
                dev == RAdd(RSub(intersample_peak(loc.gen_signal).v,
                                 intersample_peak(ch1).v), loc.sync_offset)
                out == loc'.jit_free[Len(loc'.jit_free)]
            IN  /\ Len(loc'.jit_free) = Len(loc.jit_free) + 1
                /\ Len(out) = Len(ch2)
                /\ \A k \in 0..(Len(ch2) - 1) :
                     At(out, k) = LinearInterpAt(ch2, RAdd(RInt(k), dev))
        /\ (loc.loop = "mjf" /\ loc'.loop = "mjf") => loc'.sync_offset = loc.sync_offset
        /\ (pc = "mjf_loop" /\ outcome'.kind = "returned") =>
            (outcome'.offset = loc.sync_offset /\ outcome'.jit_free = loc.jit_free)
      ]_vars

\* two trials were corrected with a stored, non-zero sync offset and a deviation
\* that is not a whole number of samples
C5_Witness ==
    /\ outcome.kind = "returned"
    /\ Len(outcome.jit_free) >= 2
    /\ outcome.offset = Rat(-5, 100)
    /\ \E t \in 1..Len(outcome.jit_free) : \E k \in 1..Len(outcome.jit_free[t]) :
         outcome.jit_free[t][k][2] # 1

\* trial t had no trigger jitter: channel 1 peaks where the reference peaks
ZeroJitter(t) ==
    /\ intersample_peak(outcome.ch_1[t]).err = "none"
    /\ intersample_peak(outcome.ch_1[t]).v = intersample_peak(outcome.gen_signal).v

\* C6: with sync offset 0, in every trial without trigger jitter the corrected
\* channel 2 equals the raw channel 2 element by element.
C6_ZeroShiftIsIdentity ==
    (outcome.kind = "returned" /\ outcome.offset = RInt(0)) =>
        \A t \in 1..Len(outcome.jit_free) :
            ZeroJitter(t) =>
                /\ Len(outcome.jit_free[t]) = Len(outcome.ch_2[t])
                /\ \A k \in 1..Len(outcome.ch_2[t]) :
                     outcome.jit_free[t][k] = RInt(outcome.ch_2[t][k])

\* a jitter-free trial with sync offset 0 whose channel 2 differs from channel 1
C6_Witness ==
    /\ outcome.kind = "returned"
    /\ outcome.offset = RInt(0)
    /\ \E t \in 1..Len(outcome.jit_free) :
         /\ ZeroJitter(t)
         /\ outcome.ch_2[t] # outcome.ch_1[t]
         /\ \E k \in 1..Len(outcome.ch_2[t]) : outcome.ch_2[t][k] # 0

\* the three returned lists have n entries; entry k of the first two is the capture
\* of the k-th acquisition of the trial loop, entry k of the third its correction
ListsFollowCaptures(n) ==
    /\ Len(outcome.ch_1) = n /\ Len(outcome.ch_2) = n /\ Len(outcome.jit_free) = n
    /\ Len(tr.caps) = n
    /\ \A k \in 1..n :
         /\ outcome.ch_1[k] = tr.caps[k][1]
         /\ outcome.ch_2[k] = tr.caps[k][2]
         /\ outcome.jit_free[k] =
              interp_shift(RAdd(RSub(intersample_peak(outcome.gen_signal).v,
                                     intersample_peak(tr.caps[k][1]).v), outcome.offset),
                           tr.caps[k][2])

\* C7 as stated: a call of measurement_jitter_free that returns has triggered
\* exactly n_avg acquisitions and returns three lists of length n_avg that follow
\* the captures in acquisition order.
C7_ExactlyNAvgAcquisitions ==
    outcome.kind = "returned" =>
        (outcome.acquisitions = outcome.n_avg /\ ListsFollowCaptures(outcome.n_avg))

\* C7, amended: the trial loop of a returning call triggers exactly n_avg
\* acquisitions, after the sync offset was resolved; a calibration on a store miss
\* has triggered its own 10,000 acquisitions before them.  The three lists have
\* length n_avg and follow the captures of the trial loop in acquisition order.
C7_LoopAcquiresNAvg ==
    outcome.kind = "returned" =>
        /\ tr.mjf_acq = outcome.n_avg
        /\ outcome.acquisitions = outcome.n_avg + (IF tr.cal THEN CalTrials ELSE 0)
        /\ ListsFollowCaptures(outcome.n_avg)

\* a call that calibrated first has returned two trials whose captures differ
C7_Witness ==
    /\ outcome.kind = "returned"
    /\ tr.cal
    /\ outcome.n_avg >= 2
    /\ outcome.ch_2[1] # outcome.ch_2[2]

\* C8: until the operator answers 'c' at the first prompt, calculate_sync_offset has
\* written no setting, triggered no acquisition and neither read nor written the
\* store; any other answer raises and leaves settings and config.json as they were.
C8_NothingBeforeConfirmation ==
    [][ pc = "cso_prompt1" =>
            /\ gen = pre.gen /\ osz = pre.osz /\ genAttr = pre.genAttr /\ file = pre.file
            /\ tr.writes = 0 /\ tr.saves = 0 /\ tr.loads = pre.loads /\ loc.calAcq = 0
            /\ UNCHANGED <<devVars, file>>
            /\ tr'.writes = 0 /\ tr'.saves = 0 /\ tr'.loads = pre.loads
            /\ Len(tr'.answers) = 1
            /\ IF tr'.answers[1] = "c"
               THEN pc' = "cso_change" /\ outcome'.kind = "none"
               ELSE pc' = "idle" /\ outcome'.kind = "raised"
      ]_vars

\* the operator refused at the first prompt
C8_Witness ==
    /\ outcome.kind = "raised"
    /\ outcome.at = "cso_prompt1"
    /\ tr.answers = <<"x">>

\* C9: at both prompts 'a' raises AttributeError, 'c' continues and any other answer
\* raises ValueError; operator input is read at the two prompts and nowhere else.
C9_TwoPrompts ==
    [][ /\ pc \in {"cso_prompt1", "cso_prompt2"} =>
            /\ Len(tr'.answers) = Len(tr.answers) + 1
            /\ Len(tr.answers) = (IF pc = "cso_prompt1" THEN 0 ELSE 1)
            /\ LET inp == tr'.answers[Len(tr'.answers)]
               IN  IF inp = "a"
                   THEN outcome'.kind = "raised" /\ outcome'.exc = "AttributeError"
                   ELSE IF inp = "c"
                   THEN /\ outcome'.kind = "none"
                        /\ pc' = (IF pc = "cso_prompt1" THEN "cso_change" ELSE "mjf_loop")
                   ELSE outcome'.kind = "raised" /\ outcome'.exc = "ValueError"
        /\ pc \notin {"cso_prompt1", "cso_prompt2"} =>
            (tr'.answers = tr.answers \/ (pc = "idle" /\ tr'.answers = <<>>))
      ]_vars

\* the operator confirmed the first prompt and aborted at the second
C9_Witness ==
    /\ outcome.kind = "raised"
    /\ outcome.exc = "AttributeError"
    /\ outcome.at = "cso_prompt2"
    /\ tr.answers = <<"c", "a">>

\* x is the mean m rounded to 2 decimals: a multiple of 1/100 at most 1/200 from m
IsRoundedTo2(x, m) ==
    /\ IsFinite(x)
    /\ RoundScale % x[2] = 0
    /\ RLe(RSub(x, m), Rat(1, 2 * RoundScale))
    /\ RLe(RSub(m, x), Rat(1, 2 * RoundScale))

\* C10: a calibration makes exactly 10,000 acquisitions; its offset is the mean over
\* the trials of (channel-1 peak - channel-2 peak) rounded to 2 decimals; the value
\* stored under (serial, rate) and the value returned to the caller are that number.
C10_OffsetIsRoundedMean ==
    /\ pc \in {"cso_load", "cso_save", "cso_restore", "cso_prompt2"} =>
        /\ loc.calAcq = 10000
        /\ IsRoundedTo2(loc.sync_offset, RDivInt(loc.diffs, 10000))
    /\ pc \in {"cso_restore", "cso_prompt2"} =>
        /\ HasEntry(FileTable, DevSerialKey, DevRateKey)
        /\ FileTable[DevSerialKey][DevRateKey] = loc.sync_offset
    /\ (tr.cal /\ loc.loop = "mjf") =>
        /\ loc.calAcq = 10000
        /\ IsRoundedTo2(loc.sync_offset, RDivInt(loc.diffs, 10000))
        /\ FileTable[DevSerialKey][DevRateKey] = loc.sync_offset
    /\ (tr.cal /\ outcome.kind = "returned") =>
        outcome.offset = FileTable[DevSerialKey][DevRateKey]

\* a calibration whose mean peak difference, -11/60, had to be rounded was stored
\* and returned
C10_Witness ==
    /\ tr.cal
    /\ outcome.kind = "returned"
    /\ outcome.offset = Rat(-18, 100)
    /\ FileTable[DevSerialKey][DevRateKey] = Rat(-18, 100)

\* C11: once config.json holds offset v under (serial, rate) - written there by a
\* calibration and read back through the JSON text - every later lookup of that key
\* finds v: a step that changes the file leaves the device's entry with the offset
\* just calibrated, and get_sync_offset with the entry present returns its value
\* without running the calibrator.
C11_StoredOffsetIsFound ==
    [][ /\ file' # file =>
            /\ file'.exists
            /\ HasEntry(FileTable', DevSerialKey, DevRateKey)
            /\ FileTable'[DevSerialKey][DevRateKey] =
                 (IF pc = "cso_save" THEN loc.sync_offset
                  ELSE FileTable[DevSerialKey][DevRateKey])
        /\ (pc = "gso_load" /\ file.exists) =>
            LET t == FileTable
            IN  HasEntry(t, DevSerialKey, DevRateKey) =>
                    /\ pc' = "mjf_loop"
                    /\ loc'.sync_offset = t[DevSerialKey][DevRateKey]
                    /\ ~tr'.cal /\ tr'.prompts = 0 /\ loc'.calAcq = 0
      ]_vars

\* a call has returned the offset an earlier call calibrated and stored, -0.18,
\* without calibrating itself
C11_Witness ==
    /\ outcome.kind = "returned"
    /\ ~tr.cal
    /\ tr.loads = 1
    /\ outcome.offset = Rat(-18, 100)

\* C12: loading the table when there is no config.json gives an empty table instead
\* of failing: no call ends with an exception raised by a load.
C12_LoadWithoutFileSucceeds ==
    ~file.exists =>
        ~(outcome.kind = "raised" /\ outcome.at \in {"gso_load", "cso_load"})

\* C13: for every table T, _save_sync_offset_config(T) followed by
\* _load_sync_offset_config() returns a table equal to T.
C13_SaveLoadRoundTrip ==
    pc = "store_done" => loc.config = loc.new_config

\* a table with two serials, a negative offset and an offset with three decimals
\* was saved and loaded
C13_Witness ==
    /\ pc = "store_done"
    /\ DOMAIN loc.new_config = TableSerials
    /\ DOMAIN loc.new_config["12345"] = TableRates
    /\ loc.new_config["12345"]["100000000.0"] = Rat(-5, 100)
    /\ loc.new_config["12345"]["50000000.0"] = Rat(12125, 1000)
    /\ DOMAIN loc.new_config["777"] = {}

\* the (serial, rate) pairs a table has an entry for
Keys(t) == UNION { { <<s, r>> : r \in DOMAIN t[s] } : s \in DOMAIN t }

\* C14: the persisted table only grows.  No step removes config.json or a key of
\* it; the only step that changes the file is the save of a calibration, which sets
\* exactly the entry of the device's serial and rate and leaves every other entry,
\* of the same serial and of other serials, as it was.
C14_TableOnlyGrows ==
    [][ file' # file =>
            LET old == IF file.exists THEN FileTable ELSE EmptyTable
                new == FileTable'
                dev == <<DevSerialKey, DevRateKey>>
            IN  /\ pc = "cso_save"
                /\ file'.exists
                /\ Keys(new) = Keys(old) \cup {dev}
                /\ \A k \in Keys(old) : k # dev => new[k[1]][k[2]] = old[k[1]][k[2]]
                /\ new[dev[1]][dev[2]] = loc.sync_offset
      ]_vars

\* a calibration has added its entry to a table that held another rate of the same
\* serial and an entry of another serial
C14_Witness ==
    /\ pc = "cso_restore"
    /\ Keys(FileTable) = { <<"777", "100000000.0">>, <<"12345", "50000000.0">>,
                           <<"12345", "100000000.0">> }
    /\ FileTable["12345"]["50000000.0"] = T0
    /\ FileTable["777"]["100000000.0"] = T0

\* the magnitude of sample k (0-based) of the waveform handed to _intersample_peak
Mag(k) == IF pre.signal[k + 1] < 0 THEN -pre.signal[k + 1] ELSE pre.signal[k + 1]

\* the first index of maximum magnitude
FirstMaxIndex ==
    CHOOSE i \in 0..(Len(pre.signal) - 1) :
        /\ \A j \in 0..(Len(pre.signal) - 1) : Mag(j) <= Mag(i)
        /\ \A j \in 0..(Len(pre.signal) - 1) : Mag(j) = Mag(i) => i <= j

\* i + 0.5 * (y[i-1] - y[i+1]) / (y[i-1] - 2 y[i] + y[i+1]) as one fraction
ParabolicVertex(i) ==
    LET den == Mag(i - 1) - 2 * Mag(i) + Mag(i + 1)
    IN  Rat(2 * i * den + Mag(i - 1) - Mag(i + 1), 2 * den)

\* C15: for a waveform of at least 3 samples whose first index i of maximum
\* magnitude is strictly interior, _intersample_peak returns
\* i + 0.5*(y[i-1] - y[i+1]) / (y[i-1] - 2*y[i] + y[i+1]), y the magnitudes, and the
\* waveform it was given is unchanged.
C15_ParabolicFormula ==
    (pc = "peak_done" /\ Len(pre.signal) >= 3
        /\ 0 < FirstMaxIndex /\ FirstMaxIndex < Len(pre.signal) - 1) =>
            /\ loc.result.err = "none"
            /\ loc.result.v = ParabolicVertex(FirstMaxIndex)
            /\ loc.signal = pre.signal

\* the peak of a waveform with a negative, asymmetric interior maximum was estimated
C15_Witness ==
    /\ pc = "peak_done"
    /\ pre.signal = <<0, 1, -2, 0>>
    /\ loc.result.v = Rat(11, 6)

\* the sample index nearest the apex p (the lower one when p is halfway)
NearestSample(q) == IF 2 * (q[1] % q[2]) <= q[2] THEN RFloor(q) ELSE RFloor(q) + 1

EventOf(kind, p) == CHOOSE i \in 1..Len(tr) : tr[i] = [op |-> kind, by |-> p]

\* C18: two calibrations that update config.json concurrently for different keys are
\* not serialized.  When both have saved, the table holds the entry of the run that
\* saved last, and it holds the entry of the other run exactly if the last saver
\* loaded after the other had saved; in the other interleavings that entry is lost.
C18_LastSaverWins ==
    (\A p \in Procs : pc[p] = "done") =>
        LET last  == tr[Len(tr)].by
            first == Other(last)
        IN  /\ HasEntry(FileTable, loc[last].key[1], loc[last].key[2])
            /\ FileTable[loc[last].key[1]][loc[last].key[2]] = loc[last].sync_offset
            /\ HasEntry(FileTable, loc[first].key[1], loc[first].key[2])
                 <=> EventOf("save", first) < EventOf("load", last)

\* both runs have saved and the persisted table lacks the entry one of them wrote
C18_Witness ==
    /\ \A p \in Procs : pc[p] = "done"
    /\ \E p \in Procs : ~HasEntry(FileTable, loc[p].key[1], loc[p].key[2])

\* the positions of _measurement
InMeasurement == {"m_start", "m_gen", "m_wait", "m_stop"}

\* C19: an error raised by the generator or the oscilloscope during a trial of
\* either routine reaches the caller as it was raised (IOError): the step that
\* raises ends the call, starts no acquisition and writes no file; after it no trial
\* runs and nothing is stored; and when it came from a calibration trial the
\* persisted table is still the one found when the calibrator was entered.
C19_DeviceErrorPropagates ==
    [][ /\ (pc \in InMeasurement /\ outcome'.kind = "raised") =>
            /\ outcome'.exc = "IOError"
            /\ outcome'.at = pc
            /\ pc' = "idle"
            /\ tr' = tr /\ file' = file /\ oszState' = oszState
            /\ loc.loop = "cso" => (tr.saves = 0 /\ file = pre.file)
        /\ (outcome.kind = "raised" /\ outcome.at \in InMeasurement) =>
            UNCHANGED <<pc, outcome, tr, file, gen, osz, genRunning>>
      ]_vars

\* the generator failed to start in a calibration trial after an earlier trial had
\* been completed
C19_Witness ==
    /\ outcome.kind = "raised"
    /\ outcome.exc = "IOError"
    /\ outcome.loop = "cso"
    /\ outcome.at = "m_gen"
    /\ phase = 1
    /\ file = pre.file

\* the numbers of a given list all name channels of the instrument
ValidNos(nos) == \A i \in DOMAIN nos : nos[i] \in 1..ChannelCnt

\* C20: retrieve raises ValueError, and has asked the instrument for no data, when
\* no channel numbers are given and no channel is enabled, when the given list is
\* empty, or when a given number names a channel that is not enabled
C20_RetrieveRejectsBadChannels ==
    LET arg == loc.channel_nos
    IN  ( /\ pc = "retr_done"
          /\ \/ ~arg.given /\ \A c \in 1..ChannelCnt : ~osz.enabled[c]
             \/ arg.given /\ arg.nos = <<>>
             \/ /\ arg.given
                /\ ValidNos(arg.nos)
                /\ \E i \in DOMAIN arg.nos : ~osz.enabled[arg.nos[i]] )
        => outcome.exc = "ValueError" /\ tr.requests = 0

\* an enabled channel followed by one that is not enabled has been refused
C20_Witness ==
    /\ pc = "retr_done"
    /\ loc.channel_nos = NosList(<<1, 2>>)
    /\ osz.enabled[1] /\ ~osz.enabled[2]
    /\ outcome.exc = "ValueError"
    /\ tr.requests = 0

\* the channels a call of retrieve is to fetch: the given numbers, or the enabled
\* channels when none are given
Retrieved ==
    IF loc.channel_nos.given
    THEN { loc.channel_nos.nos[i] : i \in DOMAIN loc.channel_nos.nos }
    ELSE { c \in 1..ChannelCnt : osz.enabled[c] }

IsNearestEven(k, n, d) ==
    /\ 2 * Abs(n - k * d) <= d
    /\ 2 * Abs(n - k * d) = d => k % 2 = 0

DigitOf(c) == CHOOSE d \in 0..9 : DigitChars[d + 1] = c
DecimalOf(t) ==
    IF t[1] = "-"
    THEN -DigitsValue([k \in 1..(Len(t) - 1) |-> DigitOf(t[k + 1])])
    ELSE DigitsValue([k \in 1..Len(t) |-> DigitOf(t[k])])

\* m reads '[<code>]: <text>'
IsStatusMessage(m, code, text) ==
    /\ Len(m) >= 4
    /\ m[1] = "["
    /\ m[Len(m) - 1] = "]: "
    /\ m[Len(m)] = text
    /\ \A k \in 2..(Len(m) - 2) : m[k] \in {DigitChars[d] : d \in 1..10} \cup {"-"}
    /\ DecimalOf(SubSeq(m, 2, Len(m) - 2)) = code

\* C23: after a native call with the status check installed, a last status of 0
\* gives the native result unaltered, a status above 0 gives a warning and still
\* the native result, a status below 0 gives an IOError reading
\* '[<code>]: <status text>' and no result
C23_StatusCheck ==
    tr.checked
    => LET c == tr.check
       IN  /\ loc.status_code = 0 =>
                ~c.raised /\ c.value = loc.result /\ c.warned = <<>>
           /\ loc.status_code > 0 =>
                /\ ~c.raised /\ c.value = loc.result
                /\ Len(c.warned) = 1
                /\ IsStatusMessage(c.warned[1], loc.status_code, loc.text)
           /\ loc.status_code < 0 =>
                /\ c.raised /\ c.exc = "IOError" /\ c.warned = <<>>
                /\ IsStatusMessage(c.msg, loc.status_code, loc.text)

\* a two-digit warning status: the result 5 came back and one warning was issued
C23_Witness ==
    /\ pc = "native_done"
    /\ tr.checked
    /\ loc.status_code = 11 /\ loc.result = 5
    /\ ~tr.check.raised /\ tr.check.value = 5
    /\ tr.check.warned = << <<"[", "1", "1", "]: ", loc.text>> >>

\* the assignments of lines 115-145 and the property setters of lines 176-190
ChangeWrites == Len(ChangeSeq(osz.sample_freq, loc.signal))
RestoreWrites == Len(SelectSeq(RestoreSeq, LAMBDA st : st.how = "set"))

\* every setting that lines 176-190 write through a property setter holds the
\* value it had when the calibration began
RestoredBySetters ==
    \A k \in DOMAIN RestoreSeq :
        LET st == RestoreSeq[k]
        IN  st.how = "set" =>
              DevGet(st) = (IF st.dev = "gen" THEN pre.gen[st.name] ELSE pre.osz[st.name])

\* the second prompt has been answered with an abort or an invalid answer
RaisedAtSecondPrompt == outcome.kind = "raised" /\ outcome.at = "cso_prompt2"

C25_AcquisitionOrder ==
    [][ /\ (pc = "m_start" /\ pc' = "m_gen") =>
            /\ ~genRunning /\ ~genRunning'
            /\ oszState' = "armed"
        /\ (pc = "m_gen" /\ pc' = "m_wait") =>
            /\ oszState = "armed"
            /\ ~genRunning /\ genRunning'
        /\ (pc = "m_wait" /\ pc' # "m_wait") =>
            /\ oszState = "ready" /\ genRunning
            /\ pc' = "m_stop" => (genRunning' /\ phase' # phase)
        /\ (pc = "m_stop" /\ outcome'.kind # "raised") =>
            /\ genRunning /\ ~genRunning'
            /\ loc'.data = loc.data
            /\ pc' \notin InMeasurement
        /\ genRunning' # genRunning => pc \in {"m_gen", "m_stop"}
        /\ (oszState' # oszState /\ oszState' = "armed") => pc = "m_start"
      ]_vars

\* the second trial of a measurement has started the oscilloscope, the generator
\* stopped by the first trial is not running
C25_Witness ==
    /\ pc = "m_gen"
    /\ loc.loop = "mjf"
    /\ tr.mjf_acq = 2
    /\ Len(tr.caps) = 1
    /\ oszState = "armed"
    /\ ~genRunning

\* the magnitude _intersample_peak reads at index k, as Python indexes an array
MagAt(k) == IF k < 0 THEN Mag(Len(pre.signal) + k) ELSE Mag(k)

\* the three magnitudes read around the maximum exist and are equal
FlatTop ==
    /\ Len(pre.signal) >= 2
    /\ FirstMaxIndex + 1 < Len(pre.signal)
    /\ MagAt(FirstMaxIndex - 1) = Mag(FirstMaxIndex)
    /\ Mag(FirstMaxIndex + 1) = Mag(FirstMaxIndex)

\* C26: when the three magnitudes around the maximum are equal _intersample_peak
\* raises nothing and returns a position that is not a number; the accumulated sum
\* and the offset of a calibration, and the deviation and the corrected samples of
\* a measurement trial, made from it are not numbers either
C26_FlatTopIsNotGuarded ==
    (pc # "peak_call" /\ FlatTop) =>
        /\ loc.result.err = "none"
        /\ ~IsFinite(loc.result.v)
        /\ pc = "peak_summed" =>
             loc.use.pos_max_ch1 = loc.result.v /\ loc.use.offset = loc.result.v
        /\ pc = "peak_deviated" =>
             /\ loc.use.diff = loc.result.v
             /\ Len(loc.use.jitter_free_cur) = Len(pre.signal)
             /\ \A k \in DOMAIN loc.use.jitter_free_cur :
                    loc.use.jitter_free_cur[k] = loc.result.v

\* a record of equal samples went through a measurement trial: the corrected
\* samples are all nan
C26_Witness ==
    /\ pc = "peak_deviated"
    /\ pre.signal = <<1, 1, 1, 1>>
    /\ loc.result = [err |-> "none", v |-> NaN]
    /\ loc.use.jitter_free_cur = <<NaN, NaN, NaN, NaN>>

\* C27: with the maximum magnitude at index 0 the estimator takes the last sample
\* of the record as the left neighbour and returns a position; with the maximum at
\* the last index it raises IndexError
C27_EdgeAsymmetry ==
    pc # "peak_call" =>
        LET n == Len(pre.signal)
        IN  /\ (FirstMaxIndex = 0 /\ n >= 2) =>
                /\ loc.result.err = "none"
                /\ loc.result.v =
                     RMul(Rat(1, 2), Rat(Mag(n - 1) - Mag(1),
                                         Mag(n - 1) - 2 * Mag(0) + Mag(1)))
            /\ FirstMaxIndex = n - 1 => loc.result.err = "IndexError"

\* the largest sample came first: with the last sample as left neighbour the
\* position returned is -1/6, before the record
C27_Witness ==
    /\ pc = "peak_done"
    /\ pre.signal = <<2, 0, 0, 1>>
    /\ loc.result = [err |-> "none", v |-> Rat(-1, 6)]

\* C28: with the maximum magnitude at a strictly interior index i and y[i] strictly
\* greater than at least one of its two neighbours, the position returned lies
\* within half a sample of i, and it is i exactly when the two neighbours are equal
C28_WithinHalfSample ==
    LET i == FirstMaxIndex
    IN  ( /\ pc # "peak_call"
          /\ 0 < i /\ i < Len(pre.signal) - 1
          /\ Mag(i) > Mag(i - 1) \/ Mag(i) > Mag(i + 1) )
        => /\ loc.result.err = "none"
           /\ IsFinite(loc.result.v)
           /\ RLe(Rat(2 * i - 1, 2), loc.result.v)
           /\ RLe(loc.result.v, Rat(2 * i + 1, 2))
           /\ loc.result.v = RInt(i) <=> Mag(i - 1) = Mag(i + 1)

\* the right neighbour is as large as the maximum: the position is i + 0.5
C28_Witness ==
    /\ pc = "peak_done"
    /\ pre.signal = <<0, 1, -2, 2>>
    /\ loc.result = [err |-> "none", v |-> Rat(5, 2)]

\* the smaller and the larger of two samples
MinOf2(a, b) == IF a <= b THEN a ELSE b
MaxOf2(a, b) == IF a <= b THEN b ELSE a

\* the corrected samples of the trial are as many as the raw ones; one whose
\* position k + deviation is before the record is the first raw sample, one whose
\* position is behind the record is the last, any other is a number between the two
\* raw samples around its position
CorrectedFromRaw ==
    LET raw == pre.signal
        out == loc.use.jitter_free_cur
        n   == Len(raw)
    IN  /\ Len(out) = n
        /\ \A k \in 0..(n - 1) :
             LET x == RAdd(RInt(k), loc.use.diff)
                 y == out[k + 1]
             IN  /\ IsFinite(y)
                 /\ IsFinite(x)
                 /\ RLt(x, RInt(0)) => y = RInt(raw[1])
                 /\ RLt(RInt(n - 1), x) => y = RInt(raw[n])
                 /\ (RLe(RInt(0), x) /\ RLe(x, RInt(n - 1))) =>
                      \E j \in 0..(n - 1) :
                          LET j1 == IF j = n - 1 THEN j ELSE j + 1
                          IN  /\ RLe(RInt(j), x) /\ RLe(x, RInt(j1))
                              /\ RLe(RInt(MinOf2(raw[j + 1], raw[j1 + 1])), y)
                              /\ RLe(y, RInt(MaxOf2(raw[j + 1], raw[j1 + 1])))

\* C29 as stated, for every deviation a trial can have
C29_EveryDeviation == pc = "peak_deviated" => CorrectedFromRaw

\* C29: for every deviation that is a number, the corrected channel 2 is as long as
\* the raw channel 2, its samples positioned before or behind the record are the
\* first or the last raw sample, and every other sample lies between the two raw
\* samples that bracket its position
C29_InterpolationClamps ==
    (pc = "peak_deviated" /\ IsFinite(loc.use.diff)) => CorrectedFromRaw

\* the record <<0, 1, -2, 2>> was corrected with deviation
\* -1/2: the first sample is the first raw sample, the others lie half way
C29_Witness ==
    /\ pc = "peak_deviated"
    /\ pre.signal = <<0, 1, -2, 2>>
    /\ loc.use.diff = Rat(-1, 2)
    /\ loc.use.jitter_free_cur = <<RInt(0), Rat(1, 2), Rat(-1, 2), RInt(0)>>

\* C30: every address scan reports is a non-reserved 7-bit address (0x08 to 0x77),
\* is not used internally, and answered the zero-length write without error; an
\* address whose write failed with any error is not in the result, so a bus on
\* which no address acknowledges gives the empty tuple
C30_ScanReportsOnlyAcknowledged ==
    pc = "scan_done" =>
        /\ \A k \in DOMAIN outcome.addresses :
             LET a == outcome.addresses[k]
             IN  /\ a \in 8..119
                 /\ a \notin plan.internal
                 /\ a \in tr.writes
                 /\ plan.bus[a].code >= 0
        /\ (\A a \in 0..127 : plan.bus[a].code < 0) => outcome.addresses = <<>>

====
